---- MODULE Spec2Model ----
(***************************************************************************)
(* Model of src/src/app/components/PokerHandEvaluator.tsx: the React       *)
(* component PokerHandEvaluator, its selection state (selectedCards,       *)
(* error), the handlers toggleCard and Reset Hand, and the hand            *)
(* classification evaluateHand.                                            *)
(***************************************************************************)
EXTENDS Integers, Sequences, FiniteSets, TLC

VARIABLES
    selectedCards,  \* useState<PlayingCard[]>([])            (line 29)
    error,          \* useState<string>("")                   (line 30)
    handRank,       \* the last value evaluateHand returned: what the render
                    \* shows as Hand Rank, or null            (lines 127-131)
    pc              \* "idle": the component waits for a click;
                    \* "call" / "return": before / after a direct call of
                    \* evaluateHand on the selectedCards it closes over

vars == <<selectedCards, error, handRank, pc>>

(***************************************************************************)
(* Types and module constants (lines 9-26).                                *)
(***************************************************************************)
suits == <<"hearts", "diamonds", "clubs", "spades">>
ranks == <<"2", "3", "4", "5", "6", "7", "8", "9", "10", "J", "Q", "K", "A">>

null == "null"

HandRank ==
    { "Royal Flush", "Straight Flush", "Four of a Kind", "Full House", "Flush",
      "Straight", "Three of a Kind", "Two Pair", "Pair", "High Card", null }

\* suits.flatMap(suit => ranks.map(rank => ({ suit, rank })))
allCards ==
    [ i \in 1..(Len(suits) * Len(ranks)) |->
        [ suit |-> suits[((i - 1) \div Len(ranks)) + 1],
          rank |-> ranks[((i - 1) % Len(ranks)) + 1] ] ]

(***************************************************************************)
(* JavaScript library operations used by the component.                    *)
(***************************************************************************)
\* Array.prototype.indexOf: zero-based index of the first match, -1 if none.
indexOf(arr, x) ==
    LET RECURSIVE scan(_)
        scan(i) == IF i > Len(arr) THEN -1
                   ELSE IF arr[i] = x THEN i - 1
                   ELSE scan(i + 1)
    IN  scan(1)

\* The comparators (a, b) => a - b and (a, b) => b - a.
ascending == [a \in Int, b \in Int |-> a - b]
descending == [a \in Int, b \in Int |-> b - a]

\* Array.prototype.sort(compareFn): a stable sort (insertion sort here); x goes
\* after every element that does not compare after it.
sort(arr, compareFn) ==
    LET RECURSIVE insertSorted(_, _)
        insertSorted(sorted, x) ==
            IF sorted = <<>> THEN <<x>>
            ELSE IF compareFn[x, Head(sorted)] < 0 THEN <<x>> \o sorted
            ELSE <<Head(sorted)>> \o insertSorted(Tail(sorted), x)
        RECURSIVE sortInto(_, _)
        sortInto(sorted, rest) ==
            IF rest = <<>> THEN sorted
            ELSE sortInto(insertSorted(sorted, Head(rest)), Tail(rest))
    IN  sortInto(<<>>, arr)

\* Array.prototype.join() with the default separator ",".
RECURSIVE join(_)
join(arr) ==
    IF arr = <<>> THEN ""
    ELSE IF Len(arr) = 1 THEN ToString(Head(arr))
    ELSE ToString(Head(arr)) \o "," \o join(Tail(arr))

\* keys.reduce((acc, k) => { acc[k] = (acc[k] || 0) + 1; return acc }, {})
RECURSIVE countReduce(_, _)
countReduce(keys, acc) ==
    IF keys = <<>> THEN acc
    ELSE countReduce(Tail(keys),
             IF Head(keys) \in DOMAIN acc
             THEN [acc EXCEPT ![Head(keys)] = @ + 1]
             ELSE acc @@ (Head(keys) :> 1))

emptyObject == [k \in {} |-> 0]

\* Object.values of an object with integer keys: in ascending key order.
ObjectValues(obj) ==
    LET keyAt(i) == CHOOSE k \in DOMAIN obj :
                        Cardinality({ j \in DOMAIN obj : j < k }) = i - 1
    IN  [ i \in 1..Cardinality(DOMAIN obj) |-> obj[keyAt(i)] ]

\* arr[i] === n for a zero-based index i; out of range reads undefined,
\* which is === to no number.
strictEqAt(arr, i, n) == (i + 1) \in DOMAIN arr /\ arr[i + 1] = n

(***************************************************************************)
(* evaluateHand (lines 57-90), as a function of the selectedCards it reads. *)
(***************************************************************************)
\* cardValues without the .sort((a, b) => a - b).
cardValues_unsorted(cards) ==
    [ i \in DOMAIN cards |-> indexOf(ranks, cards[i].rank) + 2 ]

cardValues(cards) ==
    sort([ i \in DOMAIN cards |-> indexOf(ranks, cards[i].rank) + 2 ], ascending)

suitsCount(cards) ==
    countReduce([ i \in DOMAIN cards |-> cards[i].suit ], emptyObject)

valueCount(values) == countReduce(values, emptyObject)

\* isFlush with count >= 4 for count === 5.
isFlush_fourOfSuit(cards) ==
    LET count == suitsCount(cards)
    IN  \E s \in DOMAIN count : count[s] >= 4

\* Object.values(suitsCount).some(count => count === 5)
isFlush(cards) ==
    LET count == suitsCount(cards)
    IN  \E s \in DOMAIN count : count[s] = 5

\* isStraight without the Ace-low clause.
isStraight_noWheel(values) ==
    \A i \in DOMAIN values : i = 1 \/ values[i] = values[i - 1] + 1

isStraight(values) ==
    \/ \A i \in DOMAIN values : i = 1 \/ values[i] = values[i - 1] + 1
    \/ join(values) = "2,3,4,5,14"

\* counts without the .sort((a, b) => b - a).
handCounts_unsorted(values) == ObjectValues(valueCount(values))

handCounts(values) == sort(ObjectValues(valueCount(values)), descending)

\* evaluateHand with the guard selectedCards.length < 5.
evaluateHand_lengthBelowFive(cards) ==
    IF Len(cards) < 5 THEN null
    ELSE
      LET values == cardValues(cards)
          flush == isFlush(cards)
          straight == isStraight(values)
          counts == handCounts(values)
      IN  IF flush /\ straight /\ strictEqAt(values, 4, 14) THEN "Royal Flush"
          ELSE IF flush /\ straight THEN "Straight Flush"
          ELSE IF strictEqAt(counts, 0, 4) THEN "Four of a Kind"
          ELSE IF strictEqAt(counts, 0, 3) /\ strictEqAt(counts, 1, 2) THEN "Full House"
          ELSE IF flush THEN "Flush"
          ELSE IF straight THEN "Straight"
          ELSE IF strictEqAt(counts, 0, 3) THEN "Three of a Kind"
          ELSE IF strictEqAt(counts, 0, 2) /\ strictEqAt(counts, 1, 2) THEN "Two Pair"
          ELSE IF strictEqAt(counts, 0, 2) THEN "Pair"
          ELSE "High Card"

\* evaluateHand with the Flush test moved above the two straight-flush tests.
evaluateHand_flushFirst(cards) ==
    IF Len(cards) # 5 THEN null
    ELSE
      LET values == cardValues(cards)
          flush == isFlush(cards)
          straight == isStraight(values)
          counts == handCounts(values)
      IN  IF flush THEN "Flush"
          ELSE IF flush /\ straight /\ strictEqAt(values, 4, 14) THEN "Royal Flush"
          ELSE IF flush /\ straight THEN "Straight Flush"
          ELSE IF strictEqAt(counts, 0, 4) THEN "Four of a Kind"
          ELSE IF strictEqAt(counts, 0, 3) /\ strictEqAt(counts, 1, 2) THEN "Full House"
          ELSE IF straight THEN "Straight"
          ELSE IF strictEqAt(counts, 0, 3) THEN "Three of a Kind"
          ELSE IF strictEqAt(counts, 0, 2) /\ strictEqAt(counts, 1, 2) THEN "Two Pair"
          ELSE IF strictEqAt(counts, 0, 2) THEN "Pair"
          ELSE "High Card"

evaluateHand(cards) ==
    IF Len(cards) # 5 THEN null
    ELSE
      LET values == cardValues(cards)
          flush == isFlush(cards)
          straight == isStraight(values)
          counts == handCounts(values)
      IN  IF flush /\ straight /\ strictEqAt(values, 4, 14) THEN "Royal Flush"
          ELSE IF flush /\ straight THEN "Straight Flush"
          ELSE IF strictEqAt(counts, 0, 4) THEN "Four of a Kind"
          ELSE IF strictEqAt(counts, 0, 3) /\ strictEqAt(counts, 1, 2) THEN "Full House"
          ELSE IF flush THEN "Flush"
          ELSE IF straight THEN "Straight"
          ELSE IF strictEqAt(counts, 0, 3) THEN "Three of a Kind"
          ELSE IF strictEqAt(counts, 0, 2) /\ strictEqAt(counts, 1, 2) THEN "Two Pair"
          ELSE IF strictEqAt(counts, 0, 2) THEN "Pair"
          ELSE "High Card"

(***************************************************************************)
(* The component: render and handlers.                                     *)
(***************************************************************************)
\* `${card.rank}-${card.suit}`
cardKey(card) == card.rank \o "-" \o card.suit

\* selectedCards.length === 5 && evaluateHand() && <div>Hand Rank: ...</div>
renderHandRank(cards) ==
    LET shown == evaluateHand(cards)
    IN  IF Len(cards) = 5 /\ shown # null THEN shown ELSE null


\* isSelected as selectedCards.includes(card): the grid builds its card objects
\* anew on every render, so none is identical to a selected one.
isSelected_identity(card) ==
    \E i \in DOMAIN selectedCards : FALSE

\* selectedCards.some(c => `${c.rank}-${c.suit}` === cardKey)   (lines 40-43)
isSelected(card) ==
    \E i \in DOMAIN selectedCards : cardKey(selectedCards[i]) = cardKey(card)

Init ==
    /\ selectedCards = <<>>
    /\ error = ""
    /\ handRank = renderHandRank(<<>>)
    /\ pc = "idle"

\* toggleCard with selectedCards.length <= 5.
toggleCard_sixth(card) ==
    /\ pc = "idle"
    /\ IF isSelected(card)
       THEN /\ selectedCards' =
                   SelectSeq(selectedCards, LAMBDA c : cardKey(c) # cardKey(card))
            /\ error' = ""
       ELSE IF Len(selectedCards) <= 5
       THEN /\ selectedCards' = Append(selectedCards, card)
            /\ error' = ""
       ELSE /\ error' = "You can only select 5 cards"
            /\ UNCHANGED selectedCards
    /\ handRank' = renderHandRank(selectedCards')
    /\ UNCHANGED pc

\* toggleCard without the setError("") of line 39.
toggleCard_keepsError(card) ==
    /\ pc = "idle"
    /\ IF isSelected(card)
       THEN /\ selectedCards' =
                   SelectSeq(selectedCards, LAMBDA c : cardKey(c) # cardKey(card))
            /\ UNCHANGED error
       ELSE IF Len(selectedCards) < 5
       THEN /\ selectedCards' = Append(selectedCards, card)
            /\ UNCHANGED error
       ELSE /\ error' = "You can only select 5 cards"
            /\ UNCHANGED selectedCards
    /\ handRank' = renderHandRank(selectedCards')
    /\ UNCHANGED pc

\* toggleCard (lines 38-54), followed by the re-render.  React runs one click
\* handler at a time and renders again before the next click, so the handler
\* reads the current selectedCards.  The handler itself accepts any card: the
\* sixth-card branch (lines 51-53) is the one the claims are about, although
\* the grid also passes disabled (line 155) to the Button of that card.
toggleCard(card) ==
    /\ pc = "idle"
    /\ IF isSelected(card)
       THEN /\ selectedCards' =
                   SelectSeq(selectedCards, LAMBDA c : cardKey(c) # cardKey(card))
            /\ error' = ""
       ELSE IF Len(selectedCards) < 5
       THEN /\ selectedCards' = Append(selectedCards, card)
            /\ error' = ""
       ELSE /\ error' = "You can only select 5 cards"
            /\ UNCHANGED selectedCards
    /\ handRank' = renderHandRank(selectedCards')
    /\ UNCHANGED pc

\* Reset Hand onClick (lines 164-176); the button is rendered only while
\* selectedCards.length > 0.
ResetHand ==
    /\ pc = "idle"
    /\ Len(selectedCards) > 0
    /\ selectedCards' = <<>>
    /\ error' = ""
    /\ handRank' = renderHandRank(selectedCards')
    /\ UNCHANGED pc

(***************************************************************************)
(* Spec: the component driven by clicks.  The modelled user clicks the     *)
(* first Clicked cards of sampleCards.                                     *)
(***************************************************************************)
Clicked == 7

sampleCards ==
    << [suit |-> "diamonds", rank |-> "A"], [suit |-> "diamonds", rank |-> "2"],
       [suit |-> "diamonds", rank |-> "3"], [suit |-> "diamonds", rank |-> "4"],
       [suit |-> "diamonds", rank |-> "5"], [suit |-> "hearts", rank |-> "6"],
       [suit |-> "hearts", rank |-> "5"], [suit |-> "diamonds", rank |-> "6"],
       [suit |-> "spades", rank |-> "K"], [suit |-> "clubs", rank |-> "2"] >>

Clickable == { sampleCards[i] : i \in 1..Clicked }

Next ==
    \/ \E card \in Clickable : toggleCard(card)
    \/ ResetHand

Spec == Init /\ [][Next]_vars

(***************************************************************************)
(* EvalSpec and SeqSpec: evaluateHand called directly on a selection drawn *)
(* from a bounded set, duplicates included.                                *)
(***************************************************************************)
\* const rank = evaluateHand()
Evaluate ==
    /\ pc = "call"
    /\ handRank' = evaluateHand(selectedCards)
    /\ pc' = "return"
    /\ UNCHANGED <<selectedCards, error>>

\* EvalSpec draws every five-card multiset, listed in grid order, of two
\* decks: all thirteen ranks in two suits (every straight and near-straight,
\* flush or not), and the first DeepRanks ranks in all four suits (every
\* rank-frequency pattern of distinct cards).
WideSuits == {"hearts", "diamonds"}
DeepRanks == 5

WideDeck == SelectSeq(allCards, LAMBDA c : c.suit \in WideSuits)
DeepDeck == SelectSeq(allCards, LAMBDA c : indexOf(ranks, c.rank) < DeepRanks)

EvalInit ==
    /\ \E deck \in {WideDeck, DeepDeck} :
         \E a \in DOMAIN deck : \E b \in a..Len(deck) : \E c \in b..Len(deck) :
           \E d \in c..Len(deck) : \E e \in d..Len(deck) :
             selectedCards = <<deck[a], deck[b], deck[c], deck[d], deck[e]>>
    /\ error = ""
    /\ handRank = null
    /\ pc = "call"

EvalNext == Evaluate

EvalSpec == EvalInit /\ [][EvalNext]_vars

\* SeqSpec draws every sequence of up to MaxLen cards, in every order, over
\* the first SeqCards cards of sampleCards, and reorders five-card selections.
SeqCards == 6
MaxLen == 6

SeqDeck == { sampleCards[i] : i \in 1..SeqCards }

SeqInit ==
    /\ \E n \in 0..MaxLen : selectedCards \in [1..n -> SeqDeck]
    /\ error = ""
    /\ handRank = null
    /\ pc = "call"

\* The same five cards selected in another order (positions i and j swapped),
\* and evaluateHand called on them.
Reorder(i, j) ==
    /\ pc = "return"
    /\ Len(selectedCards) = 5
    /\ selectedCards' =
           [selectedCards EXCEPT ![i] = selectedCards[j], ![j] = selectedCards[i]]
    /\ handRank' = evaluateHand(selectedCards')
    /\ UNCHANGED <<error, pc>>

SeqNext ==
    \/ Evaluate
    \/ \E i \in 1..5 : \E j \in (i + 1)..5 : Reorder(i, j)

SeqSpec == SeqInit /\ [][SeqNext]_vars

(***************************************************************************)
(* Vocabulary of the properties, stated on the cards themselves and not    *)
(* through the operators of evaluateHand.                                  *)
(***************************************************************************)
RankValue(rank) ==
    CASE rank = "2" -> 2 [] rank = "3" -> 3 [] rank = "4" -> 4 [] rank = "5" -> 5
      [] rank = "6" -> 6 [] rank = "7" -> 7 [] rank = "8" -> 8 [] rank = "9" -> 9
      [] rank = "10" -> 10 [] rank = "J" -> 11 [] rank = "Q" -> 12
      [] rank = "K" -> 13 [] rank = "A" -> 14

RankSet(cards) == { cards[i].rank : i \in DOMAIN cards }
ValueSet(cards) == { RankValue(cards[i].rank) : i \in DOMAIN cards }

OneSuit(cards) == \A i, j \in DOMAIN cards : cards[i].suit = cards[j].suit

PairwiseDistinct(cards) ==
    \A i, j \in DOMAIN cards :
        i # j => ~(cards[i].rank = cards[j].rank /\ cards[i].suit = cards[j].suit)

\* Five different values that are consecutive, or the wheel 2,3,4,5,14.
FormsStraight(cards) ==
    /\ Cardinality(ValueSet(cards)) = 5
    /\ \/ \E low \in 2..10 : ValueSet(cards) = low..(low + 4)
       \/ ValueSet(cards) = {2, 3, 4, 5, 14}

\* How many of the cards have the rank.
RankFrequency(cards, rank) ==
    Cardinality({ i \in DOMAIN cards : cards[i].rank = rank })

\* The rank frequencies in descending order, as a bag: frequency -> how many
\* ranks have it.
FrequencyBag(cards) ==
    [ n \in { RankFrequency(cards, r) : r \in RankSet(cards) } |->
        Cardinality({ r \in RankSet(cards) : RankFrequency(cards, r) = n }) ]

Returned == pc = "return"

(***************************************************************************)
(* The claims.                                                             *)
(***************************************************************************)
\* C1: the wheel in one suit (A,2,3,4,5 of a suit, in any selection order) is
\* a "Straight Flush", and "Royal Flush" is shown only for 10-J-Q-K-A.
C1_WheelIsStraightFlush ==
    Len(selectedCards) = 5 =>
        /\ (OneSuit(selectedCards) /\ RankSet(selectedCards) = {"A", "2", "3", "4", "5"}
               => handRank = "Straight Flush")
        /\ (handRank = "Royal Flush"
               => RankSet(selectedCards) = {"10", "J", "Q", "K", "A"})

\* C2: evaluateHand returns null exactly when the number of selected cards
\* is not 5; for five cards it returns one of the ten named categories.
C2_NullIffNotFive ==
    Returned =>
        /\ handRank \in HandRank
        /\ handRank = null <=> Len(selectedCards) # 5

C2_SixCardsNull ==
    Returned /\ Len(selectedCards) = 6 /\ handRank = null

\* C3: five cards of one suit whose values form a straight are a "Straight
\* Flush" or a "Royal Flush", never "Flush" or "Straight".
C3_StraightFlushPriority ==
    Returned /\ OneSuit(selectedCards) /\ FormsStraight(selectedCards)
        => handRank \in {"Straight Flush", "Royal Flush"}

C3_SixHighStraightFlush ==
    /\ Returned /\ OneSuit(selectedCards)
    /\ ValueSet(selectedCards) = 2..6
    /\ handRank = "Straight Flush"

\* C4: evaluateHand returns the same category when the same five cards are
\* given in another order.
C4_OrderIndependent ==
    [][Returned /\ Returned' => handRank' = handRank]_vars

C4_ReorderedStraight ==
    /\ Returned /\ Len(selectedCards) = 5
    /\ RankValue(selectedCards[1].rank) > RankValue(selectedCards[5].rank)
    /\ handRank = "Straight"

\* C5: for five pairwise-distinct cards in which some rank repeats, the
\* result is fixed by the rank frequencies: 4+1 "Four of a Kind", 3+2 "Full
\* House", 3+1+1 "Three of a Kind", 2+2+1 "Two Pair", 2+1+1+1 "Pair".
C5_FrequencyDecides ==
    /\ Returned /\ Len(selectedCards) = 5
    /\ PairwiseDistinct(selectedCards)
    /\ Cardinality(RankSet(selectedCards)) < 5
    => LET bag == FrequencyBag(selectedCards)
       IN  /\ bag = (4 :> 1) @@ (1 :> 1) <=> handRank = "Four of a Kind"
           /\ bag = (3 :> 1) @@ (2 :> 1) <=> handRank = "Full House"
           /\ bag = (3 :> 1) @@ (1 :> 2) <=> handRank = "Three of a Kind"
           /\ bag = (2 :> 2) @@ (1 :> 1) <=> handRank = "Two Pair"
           /\ bag = (2 :> 1) @@ (1 :> 3) <=> handRank = "Pair"
           /\ handRank \in {"Four of a Kind", "Full House", "Three of a Kind",
                            "Two Pair", "Pair"}

C5_TwoPairOfDistinctCards ==
    /\ Returned /\ PairwiseDistinct(selectedCards)
    /\ FrequencyBag(selectedCards) = (2 :> 2) @@ (1 :> 1)
    /\ handRank = "Two Pair"

\* C6, as stated: over all five-card inputs, duplicates included, the result
\* is "High Card" exactly when the hand is no flush, no straight, and its
\* five ranks are pairwise different.
C6_HighCardIffNoRepeat ==
    Returned /\ Len(selectedCards) = 5 =>
        (handRank = "High Card" <=>
            /\ ~OneSuit(selectedCards)
            /\ ~FormsStraight(selectedCards)
            /\ Cardinality(RankSet(selectedCards)) = 5)

\* C6, amended: the result is "High Card" exactly when the hand is no flush,
\* no straight, and no rank occurs 2, 3 or 4 times: its five ranks are
\* pairwise different, or all five cards have one rank.
C6_HighCardIffNoPairTripsQuads ==
    Returned /\ Len(selectedCards) = 5 =>
        (handRank = "High Card" <=>
            /\ ~OneSuit(selectedCards)
            /\ ~FormsStraight(selectedCards)
            /\ \A r \in RankSet(selectedCards) :
                   RankFrequency(selectedCards, r) \in {1, 5})

C6_FiveOfOneRankHighCard ==
    /\ Returned /\ Len(selectedCards) = 5
    /\ Cardinality(RankSet(selectedCards)) = 1
    /\ handRank = "High Card"

\* C7: selectedCards never holds more than five cards.
C7_AtMostFive ==
    Len(selectedCards) \in 0..5

C7_SixthCardRefused ==
    Len(selectedCards) = 5 /\ error = "You can only select 5 cards"

\* C8: for five cards not all of one suit, the result is "Straight" exactly
\* when the values are five consecutive integers or 2,3,4,5,14; the Ace
\* does not wrap around.
C8_StraightIffConsecutiveOrWheel ==
    Returned /\ Len(selectedCards) = 5 /\ ~OneSuit(selectedCards) =>
        (handRank = "Straight" <=> FormsStraight(selectedCards))

C8_WheelStraight ==
    /\ Returned /\ ~OneSuit(selectedCards)
    /\ ValueSet(selectedCards) = {2, 3, 4, 5, 14}
    /\ Len(selectedCards) = 5
    /\ handRank = "Straight"

\* C9: toggleCard with a card that is not selected, while five are, changes
\* nothing in selectedCards and sets error to "You can only select 5 cards";
\* every other toggleCard call, and Reset Hand, leave error empty.
C9_SixthCardRejected ==
    [][ /\ \A card \in Clickable :
             toggleCard(card) =>
                IF /\ Len(selectedCards) = 5
                   /\ \A i \in DOMAIN selectedCards : selectedCards[i] # card
                THEN /\ selectedCards' = selectedCards
                     /\ error' = "You can only select 5 cards"
                ELSE error' = ""
        /\ ResetHand => error' = "" ]_vars

C9_ErrorShown ==
    /\ error = "You can only select 5 cards"
    /\ Len(selectedCards) = 5
    /\ handRank # null

\* C10: selectedCards never holds two cards with the same rank and suit, so
\* the Hand Rank shown is always that of five pairwise-distinct cards.
C10_NoDuplicateSelected ==
    /\ PairwiseDistinct(selectedCards)
    /\ handRank # null => Len(selectedCards) = 5 /\ Cardinality(
            { <<selectedCards[i].rank, selectedCards[i].suit>> :
                i \in DOMAIN selectedCards }) = 5

C10_FiveDistinctShown ==
    /\ Len(selectedCards) = 5
    /\ PairwiseDistinct(selectedCards)
    /\ handRank = "Pair"
    /\ error = ""

====
